---- MODULE Spec2Model ----
(***************************************************************************)
(* A model of resmgt: the sprites' move() (key state -> velocity ->        *)
(* translated and clamped rectangle) of both sprite modules, the           *)
(* VillagerIconSprite's write-through to its Database, and the Game that   *)
(* drives the player's sprite frame by frame.                              *)
(*                                                                         *)
(* Lengths are pixels.  A pygame Rect holds integers: Rect.move_ip casts   *)
(* each float argument to a C int (truncation toward zero).  The floats    *)
(* the code computes are kept in thousandths of a pixel.                   *)
(***************************************************************************)
EXTENDS Integers, Sequences, FiniteSets, TLC

VARIABLES
    spr,        \* the sprite objects: id -> fields (kind "none": not constructed)
    nmoves,     \* id -> number of move() calls made on the sprite
    session,    \* Database -> whether its session is open (Database.session)
    dblog,      \* the calls made to Database.add / Database.merge, in order
    game,       \* the Game object (made = FALSE: not constructed)
    last,       \* the last operation called and how it ended
    nops,       \* the number of operations called so far
    reg         \* the SPRITE_GROUPS of each sprite module: kind -> Group, in key order

vars == <<spr, nmoves, session, dblog, game, last, nops, reg>>

----------------------------------------------------------------------------
(* Bounds of the model *)

MaxMoves == 2

MaxOps == 4

(* settings.SCREEN_WIDTH, settings.SCREEN_HEIGHT: the canvas *)
SCREEN_WIDTH == 800

SCREEN_HEIGHT == 600

----------------------------------------------------------------------------
(* Values *)

Ids == {"villager", "other"}

DBs == {"gamedb", "userdb"}

Unbound == "unbound"

DirKeys == {"K_UP", "K_DOWN", "K_LEFT", "K_RIGHT"}

NoSprite ==
    [kind |-> "none", module |-> "none",
     rect |-> [left |-> 0, top |-> 0, w |-> 0, h |-> 0],
     speed |-> 0, location |-> <<0, 0>>, model |-> <<0, 0>>, db |-> Unbound,
     ctorDb |-> Unbound, ctorInsert |-> FALSE]

NoGame ==
    [made |-> FALSE, db |-> Unbound, player |-> FALSE, running |-> FALSE,
     surface |-> FALSE, pygame |-> FALSE, inRun |-> FALSE, quitArg |-> FALSE,
     ran |-> FALSE, size |-> <<SCREEN_WIDTH, SCREEN_HEIGHT>>, sprites |-> {}]

NoLast ==
    [op |-> "none", id |-> "none", outcome |-> "ok", keys |-> {},
     v |-> <<0, 0>>, pre |-> NoSprite.rect, mergeFailed |-> FALSE,
     rendered |-> FALSE, value |-> FALSE, was |-> NoGame,
     steps |-> <<>>, drawn |-> <<>>, stop |-> FALSE, size |-> <<0, 0>>]

----------------------------------------------------------------------------
(* Arithmetic *)

Abs(x) == IF x < 0 THEN -x ELSE x

Sign(x) == IF x < 0 THEN -1 ELSE IF x > 0 THEN 1 ELSE 0

RECURSIVE IsqrtBetween(_, _, _)
IsqrtBetween(n, lo, hi) ==
    IF lo >= hi THEN lo
    ELSE LET mid == (lo + hi + 1) \div 2
         IN  IF mid * mid <= n THEN IsqrtBetween(n, mid, hi)
             ELSE IsqrtBetween(n, lo, mid - 1)

(* floor(sqrt(n)), n < 2^30 *)
Isqrt(n) == IsqrtBetween(n, 0, 32767)

(* a float, as a count of thousandths: positions, speeds and velocities of the
   code are floats, and a sprite's speed is held in thousandths of a pixel *)
Milli(x) == x * 1000

(* C cast of a float (in thousandths) to int: truncation toward zero *)
Trunc(m) == Sign(m) * (Abs(m) \div 1000)

----------------------------------------------------------------------------
(* BasicSprite.move: key state -> velocity -> translated, clamped rect *)

(* xy[0] after the four key tests: K_LEFT decrements, K_RIGHT increments *)
AxisX(keys) ==
    (IF "K_RIGHT" \in keys THEN 1 ELSE 0) - (IF "K_LEFT" \in keys THEN 1 ELSE 0)

(* xy[1] after the four key tests: K_UP decrements, K_DOWN increments *)
AxisY(keys) ==
    (IF "K_DOWN" \in keys THEN 1 ELSE 0) - (IF "K_UP" \in keys THEN 1 ELSE 0)

(* sprites/base_sprites.py: r = sqrt(x^2 + y^2); xy = [x / r * speed, y / r * speed].
   In thousandths: |x| / r * speed = sqrt(speed^2 / r^2) for |x| = 1. *)
VelocityEuclid(speed, keys) ==
    LET x  == AxisX(keys)
        y  == AxisY(keys)
        r2 == x * x + y * y
    IN  IF r2 = 0 THEN <<0, 0>>
        ELSE LET m == Isqrt((speed * speed) \div r2)
             IN  <<x * m, y * m>>

(* sprite.py: r = |x| + |y|; xy = [x * speed, y / r * speed] *)
VelocityManhattan(speed, keys) ==
    LET x == AxisX(keys)
        y == AxisY(keys)
        r == Abs(x) + Abs(y)
    IN  IF r = 0 THEN <<0, 0>>
        ELSE <<x * speed, y * (speed \div r)>>

(* the xy handed to rect.move_ip, by the module the sprite's class comes from *)
Velocity(module, speed, keys) ==
    IF module = "sprite" THEN VelocityManhattan(speed, keys)
    ELSE VelocityEuclid(speed, keys)

(* pygame Rect.move_ip(x, y) with float arguments *)
MoveIp(rect, v) ==
    [rect EXCEPT !.left = @ + Trunc(v[1]), !.top = @ + Trunc(v[2])]

(* Clamp without its tests of rect.right and rect.bottom *)
ClampNearEdgesOnly(rect) ==
    LET a == IF rect.left < 0 THEN [rect EXCEPT !.left = 0] ELSE rect
    IN  IF a.top < 0 THEN [a EXCEPT !.top = 0] ELSE a

(* Clamp without its tests of rect.left and rect.top *)
ClampFarEdgesOnly(rect) ==
    LET b == IF rect.left + rect.w > SCREEN_WIDTH
             THEN [rect EXCEPT !.left = SCREEN_WIDTH - rect.w] ELSE rect
    IN  IF b.top + b.h > SCREEN_HEIGHT
        THEN [b EXCEPT !.top = SCREEN_HEIGHT - b.h] ELSE b

(* Clamp with inclusive tests that keep the rect one pixel off each edge *)
ClampOffEdges(rect) ==
    LET a == IF rect.left <= 0 THEN [rect EXCEPT !.left = 1] ELSE rect
        b == IF a.left + a.w >= SCREEN_WIDTH
             THEN [a EXCEPT !.left = SCREEN_WIDTH - 1 - a.w] ELSE a
        c == IF b.top <= 0 THEN [b EXCEPT !.top = 1] ELSE b
        d == IF c.top + c.h >= SCREEN_HEIGHT
             THEN [c EXCEPT !.top = SCREEN_HEIGHT - 1 - c.h] ELSE c
    IN  d

(* Clamp that cuts the rect at the right and bottom edges of the canvas instead
   of moving it back *)
ClampShrinks(rect) ==
    LET a == IF rect.left < 0 THEN [rect EXCEPT !.left = 0] ELSE rect
        b == IF a.left + a.w > SCREEN_WIDTH
             THEN [a EXCEPT !.w = SCREEN_WIDTH - a.left] ELSE a
        c == IF b.top < 0 THEN [b EXCEPT !.top = 0] ELSE b
        d == IF c.top + c.h > SCREEN_HEIGHT
             THEN [c EXCEPT !.h = SCREEN_HEIGHT - c.top] ELSE c
    IN  d

(* "Keep player on the screen": the four tests, in the code's order;
   assigning rect.right (rect.bottom) moves the rect, keeping its size *)
Clamp(rect) ==
    LET a == IF rect.left < 0 THEN [rect EXCEPT !.left = 0] ELSE rect
        b == IF a.left + a.w > SCREEN_WIDTH
             THEN [a EXCEPT !.left = SCREEN_WIDTH - a.w] ELSE a
        c == IF b.top < 0 THEN [b EXCEPT !.top = 0] ELSE b
        d == IF c.top + c.h > SCREEN_HEIGHT
             THEN [c EXCEPT !.top = SCREEN_HEIGHT - c.h] ELSE c
    IN  d

(* BasicMove without its test of the speed *)
BasicMoveAtAnySpeed(module, rect, speed, keys) ==
    Clamp(MoveIp(rect, Velocity(module, speed, keys)))

(* BasicSprite.move on a sprite that has a rect: the rect after the call *)
BasicMove(module, rect, speed, keys) ==
    IF speed = 0 THEN rect
    ELSE Clamp(MoveIp(rect, Velocity(module, speed, keys)))

----------------------------------------------------------------------------
(* Constructors *)

(* the rect of a new sprite: a (0, 0, w, h) rect, then moved by rect.move_ip to the location *)
NewRect(location, size) ==
    [left |-> location[1], top |-> location[2], w |-> size[1], h |-> size[2]]

(* RectangleSprite(location, size, speed) of either module *)
RectangleSprite(module, location, size, speed) ==
    [NoSprite EXCEPT !.kind = "RectangleSprite", !.module = module,
                     !.rect = NewRect(location, size), !.speed = speed,
                     !.location = location]

----------------------------------------------------------------------------
(* SPRITE_GROUPS: the registry of render groups of a sprite module *)

(* the classes a module's loop "set up types for sprite rendering order" touches
   at module load, in order.  "sprites": base_sprites.py and then icon_sprites.py,
   which imports base_sprites' SPRITE_GROUPS; "sprite": sprite.py, with its own *)
KindsOf(module) ==
    IF module = "sprite"
    THEN <<"BasicSprite", "CircleSprite", "RectangleSprite", "IconSprite",
           "RobotIconSprite">>
    ELSE <<"BasicSprite", "CircleSprite", "RectangleSprite", "IconSprite",
           "VillagerIconSprite">>

(* SPRITE_GROUPS without the loops at module load: an empty defaultdict *)
SpriteGroupsEmpty(module) == <<>>

(* SPRITE_GROUPS after module load: a defaultdict(pygame.sprite.Group) with one
   empty Group per class, in key (insertion) order *)
SPRITE_GROUPS(module) ==
    [i \in 1..Len(KindsOf(module)) |-> [kind |-> KindsOf(module)[i], members |-> {}]]

HasKind(groups, kind) == \E i \in 1..Len(groups) : groups[i].kind = kind

(* registration in the Group of every class of the module the sprite is an
   instance of (its own class and IconSprite, for the classes derived from it) *)
RegisterInBases(groups, kind, id) ==
    [i \in 1..Len(groups) |->
        IF \/ groups[i].kind = kind
           \/ /\ groups[i].kind = "IconSprite"
              /\ kind \in {"VillagerIconSprite", "RobotIconSprite"}
        THEN [groups[i] EXCEPT !.members = @ \cup {id}] ELSE groups[i]]

(* "SPRITE_GROUPS[type(self)].add(self)": the defaultdict makes a Group for a key
   it does not hold, at the end of its keys; Group.add of a member is no change *)
Register(groups, kind, id) ==
    LET g == IF HasKind(groups, kind) THEN groups
             ELSE Append(groups, [kind |-> kind, members |-> {}])
    IN  [i \in 1..Len(g) |->
            IF g[i].kind = kind THEN [g[i] EXCEPT !.members = @ \cup {id}] ELSE g[i]]

(* a registered sprite that never reached its caller: its constructor raised
   after BasicSprite.__init__ had registered it.  Imageless: pygame.image.load
   raised, so it has no image and no rect; Dropped: a later step raised *)
Imageless(id) == IF id = "villager" THEN "villager_imageless" ELSE "other_imageless"

Dropped(id) == IF id = "villager" THEN "villager_dropped" ELSE "other_dropped"

Members(groups) == UNION {groups[i].members : i \in 1..Len(groups)}

(* the classes whose constructor sets self.image: RectangleSprite (image = surf)
   and IconSprite with its subclasses; CircleSprite sets surf and rect only,
   BasicSprite neither *)
ImageKinds == {"RectangleSprite", "IconSprite", "RobotIconSprite", "VillagerIconSprite"}

IconKinds == {"IconSprite", "RobotIconSprite", "VillagerIconSprite"}

(* the classes whose constructor sets self.rect *)
RectKinds == ImageKinds \cup {"CircleSprite"}

(* member x of a Group has the image and rect attributes that Group.draw reads *)
HasImage(sprs, x) ==
    \/ x \in {Dropped(i) : i \in Ids}
    \/ x \in Ids /\ sprs[x].kind \in ImageKinds

Min(S) == CHOOSE x \in S : \A y \in S : x <= y

(* "for group in SPRITE_GROUPS.values(): group.draw(self.surface)": the Groups
   drawn in full, in key order; Group.draw reads spr.image of each member and
   raises AttributeError at a member without one, which ends the loop *)
DrawAll(groups, sprs) ==
    LET bad == {i \in 1..Len(groups) :
                   \E x \in groups[i].members : ~HasImage(sprs, x)}
    IN  IF bad = {} THEN [drawn |-> groups, outcome |-> "ok"]
        ELSE [drawn |-> SubSeq(groups, 1, Min(bad) - 1), outcome |-> "AttributeError"]

----------------------------------------------------------------------------
(* Inputs *)

(* class defaults (250, 250), the canvas corner and centre, places near the
   far edges, and a place off the canvas *)
Locations ==
    {<<250, 250>>, <<0, 0>>, <<400, 300>>, <<745, 545>>, <<-20, -20>>,
     <<900, 700>>}

(* class default (50, 50), the icon's (64, 64), and sizes beyond the canvas *)
Sizes == {<<50, 50>>, <<64, 64>>, <<900, 50>>, <<50, 700>>}

(* speed is a float: the class defaults 10.0 (sprites/base_sprites.py) and 2.0
   (sprite.py), 0, and the fractional 0.5 and 2.5 *)
Speeds == {0, 500, Milli(2), 2500, Milli(10)}

Modules == {"sprites", "sprite"}

KeyStates == SUBSET DirKeys

(* the key states tried on the player's sprite: none, one key, a diagonal *)
KeySample == {{}, {"K_RIGHT"}, {"K_UP", "K_LEFT"}}

----------------------------------------------------------------------------
(* move() on a sprite without a record: BasicSprite.move *)

MoveSprite(id, keys) ==
    /\ spr[id].kind \in RectKinds \ {"VillagerIconSprite"}
    /\ nmoves[id] < MaxMoves
    /\ spr' = [spr EXCEPT ![id].rect =
                   BasicMove(spr[id].module, @, spr[id].speed, keys)]
    /\ nmoves' = [nmoves EXCEPT ![id] = @ + 1]
    /\ last' = [NoLast EXCEPT !.op = "move", !.id = id, !.keys = keys,
                   !.v = IF spr[id].speed = 0 THEN <<0, 0>>
                         ELSE Velocity(spr[id].module, spr[id].speed, keys),
                   !.pre = spr[id].rect]
    /\ UNCHANGED <<session, dblog, game, nops, reg>>

(* one sprite, of any construction, and then its moves *)
InitMove ==
    /\ \E m \in Modules, l \in Locations, z \in Sizes, s \in Speeds :
          spr = [i \in Ids |-> IF i = "other" THEN RectangleSprite(m, l, z, s)
                               ELSE NoSprite]
    /\ nmoves = [i \in Ids |-> 0]
    /\ session = [d \in DBs |-> FALSE]
    /\ dblog = <<>>
    /\ game = NoGame
    /\ last = NoLast
    /\ nops = 0
    /\ reg = [m \in Modules |->
                 IF spr["other"].module = m
                 THEN Register(SPRITE_GROUPS(m), "RectangleSprite", "other")
                 ELSE SPRITE_GROUPS(m)]

NextMove == \E keys \in KeyStates : MoveSprite("other", keys)

SpecMove == InitMove /\ [][NextMove]_vars

----------------------------------------------------------------------------
(* The VillagerIconSprite and its Database *)

(* the number of entries of a log that are calls of op *)
RECURSIVE Count(_, _)
Count(log, op) ==
    IF log = <<>> THEN 0
    ELSE (IF log[Len(log)].op = op THEN 1 ELSE 0) + Count(SubSeq(log, 1, Len(log) - 1), op)

(* a call of Database.add or Database.merge that reached the session: the record's
   x and y as handed over, and where the sprite's rect was at the time of the call
   (session.add is taken to succeed; session.merge succeeds or raises); by: the
   caller of the sprite's method: "new" (its constructor), "game" (Game.__init__),
   "frame" (Game.run) or "caller" *)
DbCall(op, s, ok, by) ==
    [op |-> op, by |-> by, db |-> s.db, x |-> s.model[1], y |-> s.model[2],
     at |-> <<s.rect.left, s.rect.top>>, ok |-> ok]

(* VillagerIconSprite.insert(db): "if db: self.db = db", then self.db.add(self.model).
   self.db of a sprite never bound is no attribute, and the session of a Database
   without an open session is None: AttributeError either way. *)
SpriteInsert(s, db, sess, log, by) ==
    LET s1 == IF db # Unbound THEN [s EXCEPT !.db = db] ELSE s
    IN  IF s1.db = Unbound \/ ~sess[s1.db]
        THEN [s |-> s1, log |-> log, outcome |-> "AttributeError"]
        ELSE [s |-> s1, log |-> Append(log, DbCall("add", s1, TRUE, by)),
              outcome |-> "ok"]

(* the calls of a log that reached the session of Database d and returned *)
Returned(log, d) == {i \in 1..Len(log) : log[i].db = d /\ log[i].ok}

(* the last call before the i-th that committed the session of d, 0 for none:
   Database.add is "session.add; session.commit()", and a commit writes all the
   session holds; Database.merge is "return self.session.merge(...)" alone *)
LastCommit(log, d, i) ==
    LET adds == {j \in Returned(log, d) : j < i /\ log[j].op = "add"}
    IN  IF adds = {} THEN 0 ELSE CHOOSE j \in adds : \A k \in adds : k <= j

(* the session of d holds a change not committed: a merge returned and no commit
   followed it, and the record merged was new to the session (a pending INSERT)
   or differed from the row as committed (a pending UPDATE) *)
Pending(log, d) ==
    \E i \in Returned(log, d) :
        /\ log[i].op = "merge"
        /\ LastCommit(log, d, Len(log) + 1) < i
        /\ LET c == LastCommit(log, d, i)
           IN  c = 0 \/ <<log[c].x, log[c].y>> # <<log[i].x, log[i].y>>

(* VillagerMove with the merge skipped when BasicSprite.move returns early *)
VillagerMoveMergesOnlyIfMoving(s, keys, fails, sess, log, by) ==
    LET s1 == [s EXCEPT !.rect = BasicMove(s.module, s.rect, s.speed, keys),
                        !.model = s.location]
    IN  IF s1.db = Unbound \/ ~sess[s1.db]
        THEN [s |-> s1, log |-> log, outcome |-> "AttributeError"]
        ELSE IF s.speed = 0 THEN [s |-> s1, log |-> log, outcome |-> "ok"]
        ELSE [s |-> s1, log |-> Append(log, DbCall("merge", s1, ~fails, by)),
              outcome |-> IF fails THEN "PersistenceError" ELSE "ok"]

(* VillagerMove with the rect put back when the merge raises *)
VillagerMoveRollsBack(s, keys, fails, sess, log, by) ==
    LET s1 == [s EXCEPT !.rect = BasicMove(s.module, s.rect, s.speed, keys),
                        !.model = s.location]
    IN  IF s1.db = Unbound \/ ~sess[s1.db]
        THEN [s |-> s1, log |-> log, outcome |-> "AttributeError"]
        ELSE [s |-> IF fails THEN [s1 EXCEPT !.rect = s.rect] ELSE s1,
              log |-> Append(log, DbCall("merge", s1, ~fails, by)),
              outcome |-> IF fails THEN "PersistenceError" ELSE "ok"]

(* VillagerMove with the merge dropped when no Database is bound *)
VillagerMoveDropsUnbound(s, keys, fails, sess, log, by) ==
    LET s1 == [s EXCEPT !.rect = BasicMove(s.module, s.rect, s.speed, keys),
                        !.model = s.location]
    IN  IF s1.db = Unbound
        THEN [s |-> s1, log |-> log, outcome |-> "ok"]
        ELSE IF ~sess[s1.db]
        THEN [s |-> s1, log |-> log, outcome |-> "AttributeError"]
        ELSE [s |-> s1, log |-> Append(log, DbCall("merge", s1, ~fails, by)),
              outcome |-> IF fails THEN "PersistenceError" ELSE "ok"]

(* VillagerIconSprite.move(pressed_keys): super().move, then
   "self.model.x, self.model.y = self.location", then self.db.merge(self.model);
   fails: this call of session.merge raises *)
VillagerMove(s, keys, fails, sess, log, by) ==
    LET s1 == [s EXCEPT !.rect = BasicMove(s.module, s.rect, s.speed, keys),
                        !.model = s.location]
    IN  IF s1.db = Unbound \/ ~sess[s1.db]
        THEN [s |-> s1, log |-> log, outcome |-> "AttributeError"]
        ELSE [s |-> s1, log |-> Append(log, DbCall("merge", s1, ~fails, by)),
              outcome |-> IF fails THEN "PersistenceError" ELSE "ok"]

(* the fields of a VillagerIconSprite after IconSprite.__init__ and
   "self.model = Villager(x=location[0], y=location[1])"; size is the class's (64, 64) *)
VillagerIconSprite(location, speed, db, ins) ==
    [NoSprite EXCEPT !.kind = "VillagerIconSprite", !.module = "sprites",
                     !.rect = NewRect(location, <<64, 64>>), !.speed = speed,
                     !.location = location, !.model = location,
                     !.ctorDb = db, !.ctorInsert = ins]

VLocations == {<<400, 300>>}

VSpeeds == {0, Milli(10)}

(* an operation is called: the model follows the program for MaxOps operations *)
Op ==
    /\ nops < MaxOps
    /\ nops' = nops + 1

(* VillagerIconSprite(location, speed, db, insert): BasicSprite.__init__
   registers the sprite, IconSprite.__init__ loads its image (imgOk: the load
   succeeds), then with a db it binds it and, if insert, calls self.insert().
   An error leaves the caller without the object, and the object in its Group. *)
NewVillager(location, speed, db, ins, imgOk) ==
    /\ Op
    /\ ~game.inRun
    /\ spr["villager"].kind = "none"
    /\ LET s0  == VillagerIconSprite(location, speed, db, ins)
           s1  == IF db # Unbound THEN [s0 EXCEPT !.db = db] ELSE s0
           res == IF ~imgOk THEN [s |-> s0, log |-> dblog, outcome |-> "pygame.error"]
                  ELSE IF db # Unbound /\ ins
                  THEN SpriteInsert(s1, Unbound, session, dblog, "new")
                  ELSE [s |-> s1, log |-> dblog, outcome |-> "ok"]
           who == IF ~imgOk THEN Imageless("villager")
                  ELSE IF res.outcome # "ok" THEN Dropped("villager")
                  ELSE "villager"
       IN  /\ spr' = IF res.outcome = "ok" THEN [spr EXCEPT !["villager"] = res.s]
                     ELSE spr
           /\ reg' = [reg EXCEPT !["sprites"] = Register(@, "VillagerIconSprite", who)]
           /\ dblog' = res.log
           /\ last' = [NoLast EXCEPT !.op = "new", !.id = "villager",
                                     !.outcome = res.outcome]
    /\ UNCHANGED <<nmoves, session, game>>

(* Database.open_session() by the caller, on a connected Database *)
OpenSession(d) ==
    /\ Op
    /\ ~game.inRun
    /\ ~session[d]
    /\ session' = [session EXCEPT ![d] = TRUE]
    /\ last' = [NoLast EXCEPT !.op = "open_session"]
    /\ UNCHANGED <<spr, nmoves, dblog, game, reg>>

(* sprite.insert(db) called by the caller; db = Unbound: insert() *)
Insert(db) ==
    /\ Op
    /\ ~game.inRun
    /\ spr["villager"].kind # "none"
    /\ LET res == SpriteInsert(spr["villager"], db, session, dblog, "caller")
       IN  /\ spr' = [spr EXCEPT !["villager"] = res.s]
           /\ dblog' = res.log
           /\ last' = [NoLast EXCEPT !.op = "insert", !.id = "villager",
                                     !.outcome = res.outcome]
    /\ UNCHANGED <<nmoves, session, game, reg>>

(* sprite.move(pressed_keys) called by the caller *)
MoveVillager(keys, fails) ==
    /\ Op
    /\ ~game.inRun
    /\ spr["villager"].kind # "none"
    /\ LET res == VillagerMove(spr["villager"], keys, fails, session, dblog, "caller")
       IN  /\ spr' = [spr EXCEPT !["villager"] = res.s]
           /\ dblog' = res.log
           /\ last' = [NoLast EXCEPT !.op = "move", !.id = "villager",
                          !.keys = keys, !.pre = spr["villager"].rect,
                          !.outcome = res.outcome,
                          !.mergeFailed = (res.outcome = "PersistenceError")]
    /\ nmoves' = [nmoves EXCEPT !["villager"] = @ + 1]
    /\ UNCHANGED <<session, game, reg>>

----------------------------------------------------------------------------
(* Sprites of every class of both modules, constructed in any order *)

(* the fields of a sprite of a class after its constructor: CircleSprite's rect is
   the square around its radius (class default 75), RectangleSprite's and
   IconSprite's rects have the size (50, 50), RobotIconSprite's and
   VillagerIconSprite's (64, 64); BasicSprite sets no rect *)
NewSpriteFields(module, kind, location, speed) ==
    IF kind = "VillagerIconSprite" THEN VillagerIconSprite(location, speed, Unbound, FALSE)
    ELSE [NoSprite EXCEPT
             !.kind = kind, !.module = module, !.speed = speed, !.location = location,
             !.rect = IF kind = "BasicSprite" THEN NoSprite.rect
                      ELSE IF kind = "CircleSprite" THEN NewRect(location, <<150, 150>>)
                      ELSE IF kind = "RobotIconSprite" THEN NewRect(location, <<64, 64>>)
                      ELSE NewRect(location, <<50, 50>>)]

(* id names no object yet, held by a caller or by a Group *)
Unused(id) ==
    /\ spr[id].kind = "none"
    /\ \A m \in Modules :
          Members(reg[m]) \cap {id, Imageless(id), Dropped(id)} = {}

(* a constructor of a class of a module is called: BasicSprite.__init__ registers
   the sprite, then the class's own constructor builds its image and rect; imgOk:
   pygame.image.load succeeds (read by IconSprite and its subclasses only) *)
NewSprite(id, module, kind, location, speed, imgOk) ==
    /\ Unused(id)
    /\ \E i \in 1..Len(KindsOf(module)) : KindsOf(module)[i] = kind
    /\ LET raised == kind \in IconKinds /\ ~imgOk
       IN  /\ reg' = [reg EXCEPT ![module] =
                         Register(@, kind, IF raised THEN Imageless(id) ELSE id)]
           /\ spr' = IF raised THEN spr
                     ELSE [spr EXCEPT ![id] = NewSpriteFields(module, kind, location, speed)]
           /\ last' = [NoLast EXCEPT !.op = "new", !.id = id,
                          !.outcome = IF raised THEN "pygame.error" ELSE "ok"]
    /\ UNCHANGED <<nmoves, session, dblog, game, nops>>

(* the loop of a frame of run() that draws the Groups of sprite.py's SPRITE_GROUPS *)
DrawGroups ==
    /\ LET drw == DrawAll(reg["sprite"], spr)
       IN  last' = [NoLast EXCEPT !.op = "draw", !.outcome = drw.outcome,
                                  !.drawn = drw.drawn]
    /\ UNCHANGED <<spr, nmoves, session, dblog, game, nops, reg>>

InitSprites ==
    /\ spr = [i \in Ids |-> NoSprite]
    /\ nmoves = [i \in Ids |-> 0]
    /\ session = [d \in DBs |-> FALSE]
    /\ dblog = <<>>
    /\ game = NoGame
    /\ last = NoLast
    /\ nops = 0
    /\ reg = [m \in Modules |-> SPRITE_GROUPS(m)]

(* the places and speeds of the sprites constructed: the class defaults *)
SLocations == {<<250, 250>>}

SSpeeds == {Milli(10)}

AllKinds == {"BasicSprite", "CircleSprite", "RectangleSprite", "IconSprite",
             "RobotIconSprite", "VillagerIconSprite"}

NextSprites ==
    \/ \E i \in Ids, m \in Modules, k \in AllKinds, l \in SLocations, s \in SSpeeds,
          img \in BOOLEAN :
          NewSprite(i, m, k, l, s, img)
    \/ \E i \in Ids : MoveSprite(i, {"K_RIGHT"})
    \/ DrawGroups

SpecSprites == InitSprites /\ [][NextSprites]_vars

----------------------------------------------------------------------------
(* The Game *)

(* a running setter that performs quit() when given False *)
SetRunningQuits(g, value) ==
    IF ~value THEN [g EXCEPT !.pygame = FALSE, !.surface = FALSE, !.running = FALSE]
    ELSE g

(* a running setter that stores the value it is given *)
SetRunningStores(g, value) == [g EXCEPT !.running = value]

(* the running setter: "if self.running and not value: self._running = False" *)
SetRunning(g, value) ==
    IF g.running /\ ~value THEN [g EXCEPT !.running = FALSE] ELSE g

(* Game.start() with "_running = True" placed before the display is opened *)
GameStartRunsFirst(g, ok) ==
    IF ok
    THEN [g EXCEPT !.pygame = TRUE, !.surface = TRUE, !.running = TRUE, !.ran = TRUE]
    ELSE [g EXCEPT !.pygame = TRUE, !.running = TRUE, !.ran = TRUE]

(* Game.start(): pygame.init(), the display, the clock, _running = True;
   ran records that running has been set True on this Game.
   ok = FALSE: pygame.display.set_mode raises, after pygame.init() and before
   any attribute of the Game is assigned *)
GameStart(g, ok) ==
    IF ok
    THEN [g EXCEPT !.pygame = TRUE, !.surface = TRUE, !.running = TRUE, !.ran = TRUE]
    ELSE [g EXCEPT !.pygame = TRUE]

(* Game.quit() without its "Just in case" reset of _running *)
GameQuitKeepsRunning(g) ==
    [g EXCEPT !.pygame = FALSE, !.surface = FALSE]

(* Game.quit() without its reset of _surface *)
GameQuitKeepsSurface(g) ==
    [g EXCEPT !.pygame = FALSE, !.running = FALSE]

(* Game.quit(): pygame.quit(), _surface = None, _running = False *)
GameQuit(g) ==
    [g EXCEPT !.pygame = FALSE, !.surface = FALSE, !.running = FALSE]

(* Game(player_sprite, db, start): db defaults to the class's Database ("gamedb");
   opens its session if there is none; with a player, self.player.insert(self.db)
   and self.sprites.add(self.player); the other_sprites (others) are added to
   self.sprites; with start, self.start() (ok: the display
   can be opened), whose error leaves the caller without the Game *)
NewGame(withPlayer, db, start, ok, others) ==
    /\ Op
    /\ ~game.made
    /\ withPlayer => spr["villager"].kind # "none"
    /\ \A o \in others : spr[o].kind # "none"
    /\ LET sess == [session EXCEPT ![db] = TRUE]
           res  == IF withPlayer
                   THEN SpriteInsert(spr["villager"], db, sess, dblog, "game")
                   ELSE [s |-> spr["villager"], log |-> dblog, outcome |-> "ok"]
           g    == [NoGame EXCEPT !.made = TRUE, !.db = db, !.player = withPlayer,
                                  !.sprites = (IF withPlayer THEN {"villager"} ELSE {})
                                              \cup others]
       IN  /\ session' = sess
           /\ spr' = [spr EXCEPT !["villager"] = res.s]
           /\ dblog' = res.log
           /\ game' = IF ~start THEN g
                      ELSE IF ok THEN GameStart(g, TRUE)
                      ELSE [NoGame EXCEPT !.pygame = TRUE]
           /\ last' = [NoLast EXCEPT !.op = "game",
                          !.outcome = IF res.outcome # "ok" THEN res.outcome
                                      ELSE IF start /\ ~ok THEN "pygame.error"
                                      ELSE "ok"]
    /\ UNCHANGED <<nmoves, reg>>

(* game.start() called by the caller; ok: the display can be opened *)
Start(ok) ==
    /\ Op
    /\ game.made /\ ~game.inRun
    /\ game' = GameStart(game, ok)
    /\ last' = [NoLast EXCEPT !.op = "start", !.was = game,
                              !.outcome = IF ok THEN "ok" ELSE "pygame.error"]
    /\ UNCHANGED <<spr, nmoves, session, dblog, reg>>

(* game.quit() called by the caller *)
Quit ==
    /\ Op
    /\ game.made /\ ~game.inRun
    /\ game' = GameQuit(game)
    /\ last' = [NoLast EXCEPT !.op = "quit", !.was = game]
    /\ UNCHANGED <<spr, nmoves, session, dblog, reg>>

(* "game.running = value" by the caller *)
AssignRunning(value) ==
    /\ Op
    /\ game.made /\ ~game.inRun
    /\ game' = SetRunning(game, value)
    /\ last' = [NoLast EXCEPT !.op = "set_running", !.value = value, !.was = game]
    /\ UNCHANGED <<spr, nmoves, session, dblog, reg>>

(* a size setter that stores the value whatever the surface *)
SetSizeAlways(g, val) == [g EXCEPT !.size = val]

(* the size setter: "if self.surface is None: self._size = val" *)
SetSize(g, val) == IF ~g.surface THEN [g EXCEPT !.size = val] ELSE g

(* the sizes assigned: settings' size and another *)
DisplaySizes == {<<SCREEN_WIDTH, SCREEN_HEIGHT>>, <<640, 480>>}

(* "game.size = val" by the caller *)
AssignSize(val) ==
    /\ Op
    /\ game.made /\ ~game.inRun
    /\ game' = SetSize(game, val)
    /\ last' = [NoLast EXCEPT !.op = "set_size", !.size = val, !.was = game]
    /\ UNCHANGED <<spr, nmoves, session, dblog, reg>>

(* the end of run(): "if quit: pygame.quit()" *)
RunEnd(g) ==
    [g EXCEPT !.inRun = FALSE, !.pygame = IF g.quitArg THEN FALSE ELSE @]

(* game.run(quit) is called: the first test of "while self.running" *)
Run(quitArg) ==
    /\ Op
    /\ game.made /\ ~game.inRun
    /\ game' = IF game.running
               THEN [game EXCEPT !.inRun = TRUE, !.quitArg = quitArg]
               ELSE RunEnd([game EXCEPT !.quitArg = quitArg])
    /\ last' = [NoLast EXCEPT !.op = "run", !.was = game]
    /\ UNCHANGED <<spr, nmoves, session, dblog, reg>>

(* the calls of one pass of the loop of run(), in the order made: those up to
   self.player.move, those after it, and the last *)
StepsToMove == <<"tick", "events", "keys", "move">>

StepsToDraw == <<"fill", "draw">>

StepsToFlip == <<"flip">>

(* FrameMoves were run() to call move() of every sprite of self.sprites *)
FrameMovesAll(g) == g.sprites

(* the sprites whose move() a pass of the loop of run() calls: self.player *)
FrameMoves(g) == IF g.player THEN {"villager"} ELSE {}

(* one pass of the loop of run(), with the test of "while self.running" that
   follows it.  quitEv: pygame.event.get() holds a QUIT event; esc: K_ESCAPE is
   pressed; keys: the direction keys pressed; fails: session.merge raises.
   The Groups drawn are those of sprite.py's SPRITE_GROUPS, the one game.py
   imports.  An exception raised by self.player.move or by a Group.draw leaves
   run() at once: nothing in run() catches it. *)
Frame(quitEv, esc, keys, fails) ==
    /\ Op
    /\ game.inRun
    /\ LET g1  == IF quitEv THEN SetRunning(game, FALSE) ELSE game
           g2  == IF esc THEN SetRunning(g1, FALSE) ELSE g1
           res == IF game.player
                  THEN VillagerMove(spr["villager"], keys, fails, session, dblog, "frame")
                  ELSE [s |-> spr["villager"], log |-> dblog,
                        outcome |-> "AttributeError"]
           drw == DrawAll(reg["sprite"], [spr EXCEPT !["villager"] = res.s])
           out == IF res.outcome # "ok" THEN res.outcome ELSE drw.outcome
       IN  /\ spr' = [i \in Ids |->
                         IF i = "villager" THEN res.s
                         ELSE IF i \in FrameMoves(game)
                         THEN [spr[i] EXCEPT
                                  !.rect = BasicMove(spr[i].module, spr[i].rect,
                                                    spr[i].speed, keys)]
                         ELSE spr[i]]
           /\ dblog' = res.log
           /\ nmoves' = IF game.player
                        THEN [nmoves EXCEPT !["villager"] = @ + 1] ELSE nmoves
           /\ game' = IF out # "ok" THEN [g2 EXCEPT !.inRun = FALSE]
                      ELSE IF g2.running THEN g2
                      ELSE RunEnd(g2)
           /\ last' = [NoLast EXCEPT !.op = "frame",
                          !.id = IF game.player THEN "villager" ELSE "none",
                          !.keys = keys, !.pre = spr["villager"].rect,
                          !.outcome = out,
                          !.mergeFailed = (res.outcome = "PersistenceError"),
                          !.rendered = (out = "ok"),
                          !.stop = (quitEv \/ esc),
                          !.steps = IF res.outcome # "ok" THEN StepsToMove
                                    ELSE IF drw.outcome # "ok"
                                    THEN StepsToMove \o StepsToDraw
                                    ELSE StepsToMove \o StepsToDraw \o StepsToFlip,
                          !.drawn = IF res.outcome = "ok" THEN drw.drawn ELSE <<>>]
    /\ UNCHANGED <<session, reg>>

----------------------------------------------------------------------------
(* The program: sprites, databases and a game, and the calls made on them *)

Init ==
    /\ spr = [i \in Ids |-> NoSprite]
    /\ nmoves = [i \in Ids |-> 0]
    /\ session = [d \in DBs |-> FALSE]
    /\ dblog = <<>>
    /\ game = NoGame
    /\ last = NoLast
    /\ nops = 0
    /\ reg = [m \in Modules |-> SPRITE_GROUPS(m)]

Next ==
    \/ \E l \in VLocations, s \in VSpeeds, d \in DBs \cup {Unbound}, i \in BOOLEAN,
          img \in BOOLEAN :
          NewVillager(l, s, d, i, img)
    \/ \E d \in DBs : OpenSession(d)
    \/ \E d \in DBs \cup {Unbound} : Insert(d)
    \/ \E keys \in KeySample, f \in BOOLEAN : MoveVillager(keys, f)
    \/ \E p \in BOOLEAN, d \in DBs, st \in BOOLEAN, ok \in BOOLEAN :
          NewGame(p, d, st, ok, {})
    \/ \E ok \in BOOLEAN : Start(ok)
    \/ Quit
    \/ \E value \in BOOLEAN : AssignRunning(value)
    \/ \E val \in DisplaySizes : AssignSize(val)
    \/ \E q \in BOOLEAN : Run(q)
    \/ \E qe \in BOOLEAN, esc \in BOOLEAN, keys \in KeySample, f \in BOOLEAN :
          Frame(qe, esc, keys, f)

Spec == Init /\ [][Next]_vars

(* A Game with other sprites: a CircleSprite or RectangleSprite of either module
   is constructed and handed to the Game as other_sprites, with or without a
   villager as player; then run() and its frames *)
OtherKinds == {"CircleSprite", "RectangleSprite"}

NextOthers ==
    \/ \E m \in Modules, k \in OtherKinds, l \in SLocations, s \in SSpeeds :
          ~game.made /\ NewSprite("other", m, k, l, s, TRUE)
    \/ \E l \in VLocations, s \in VSpeeds : NewVillager(l, s, Unbound, FALSE, TRUE)
    \/ \E p \in BOOLEAN, o \in SUBSET {"other"} : NewGame(p, "gamedb", TRUE, TRUE, o)
    \/ \E q \in BOOLEAN : Run(q)
    \/ \E qe \in BOOLEAN, esc \in BOOLEAN, keys \in KeySample, f \in BOOLEAN :
          Frame(qe, esc, keys, f)

SpecOthers == Init /\ [][NextOthers]_vars

----------------------------------------------------------------------------
(* What the claims speak of *)

V == spr["villager"]

(* the position of a sprite: the top left corner of its rect *)
Pos(s) == <<s.rect.left, s.rect.top>>

InBounds(r) ==
    /\ 0 <= r.left /\ r.left + r.w <= SCREEN_WIDTH
    /\ 0 <= r.top  /\ r.top + r.h <= SCREEN_HEIGHT

FitsCanvas(r) == r.w <= SCREEN_WIDTH /\ r.h <= SCREEN_HEIGHT

(* the last operation was a move() of sprite i: called directly, or by a frame of run() *)
Moved(i) == last.op \in {"move", "frame"} /\ last.id = i

(* two direction keys on different axes *)
Diagonal(keys) == Cardinality(keys) = 2 /\ AxisX(keys) # 0 /\ AxisY(keys) # 0

(* a velocity (in thousandths) whose Euclidean length is speed, to 2 thousandths *)
HasLength(v, speed) ==
    LET m2 == v[1] * v[1] + v[2] * v[2]
        lo == IF speed >= 2 THEN speed - 2 ELSE 0
        hi == speed + 2
    IN  lo * lo <= m2 /\ m2 <= hi * hi

----------------------------------------------------------------------------
(* C1, as stated: after any move() of any sprite, whatever its rect, speed and
   keys, the rect lies within the canvas. *)
C1_AlwaysWithinCanvas ==
    \A i \in Ids : Moved(i) => InBounds(spr[i].rect)

(* C1, amended: after a move() of a sprite whose rect is no larger than the
   canvas, and whose speed is not zero or whose rect lay within the canvas before
   the call, the rect lies within the canvas. *)
C1_WithinCanvas ==
    \A i \in Ids :
        (/\ Moved(i)
         /\ FitsCanvas(spr[i].rect)
         /\ (spr[i].speed # 0 \/ InBounds(last.pre)))
        => InBounds(spr[i].rect)

(* a sprite that was off the canvas has moved and lies within it *)
C1_Witness ==
    \E i \in Ids :
        /\ Moved(i) /\ FitsCanvas(spr[i].rect) /\ spr[i].speed # 0
        /\ ~InBounds(last.pre)
        /\ last.pre.left + last.pre.w > SCREEN_WIDTH
        /\ InBounds(spr[i].rect)

(* C10: with two orthogonal direction keys pressed and no clamping, the
   displacement move() applies has length speed and equal absolute components, in
   both sprite modules. *)
C10_DiagonalHasLengthSpeed ==
    \A i \in Ids :
        (/\ Moved(i) /\ Diagonal(last.keys)
         /\ InBounds(MoveIp(last.pre, last.v)))
        => /\ Abs(last.v[1]) = Abs(last.v[2])
           /\ HasLength(last.v, spr[i].speed)

----------------------------------------------------------------------------
(* C2: after a move() of the VillagerIconSprite that ends without error, the
   record's x and y are the sprite's position, as this move() has left it. *)
C2_RecordFollowsPosition ==
    (Moved("villager") /\ last.outcome = "ok") => V.model = Pos(V)

(* C3: a VillagerIconSprite constructed with a Database and insert=True has had
   exactly one Database.add issued by the time of its first move(), also when a
   Game was constructed with it as player_sprite (the caller itself calling
   insert() aside). *)
C3_OneInsertBeforeFirstMove ==
    (/\ V.ctorDb # Unbound /\ V.ctorInsert
     /\ Moved("villager") /\ nmoves["villager"] = 1
     /\ \A i \in 1..Len(dblog) : dblog[i].by # "caller" \/ dblog[i].op # "add")
    => Count(dblog, "add") = 1

(* C4: a move() of a VillagerIconSprite whose Database is bound and has an open
   session issues exactly one merge, after the rect has been updated, whatever
   the keys and the speed; no other operation issues a merge. *)
C4_OneMergePerMove ==
    [][LET moved == nmoves'["villager"] = nmoves["villager"] + 1
           n     == Len(dblog)
       IN  /\ (moved /\ V.db # Unbound /\ session[V.db])
                  => /\ Len(dblog') = n + 1
                     /\ SubSeq(dblog', 1, n) = dblog
                     /\ dblog'[n + 1].op = "merge"
                     /\ dblog'[n + 1].at = Pos(spr'["villager"])
           /\ ~moved => Count(dblog', "merge") = Count(dblog, "merge")]_vars

(* two moves and two merges, the second move leaving the rect where it was
   (speed zero, or no key pressed) *)
C4_Witness ==
    /\ Moved("villager") /\ last.outcome = "ok"
    /\ nmoves["villager"] = 2
    /\ Count(dblog, "merge") = 2
    /\ Pos(V) = <<last.pre.left, last.pre.top>>

(* C5: no merge is issued before an insert (Database.add) has been issued,
   whatever the options the sprite was constructed with. *)
C5_InsertBeforeFirstMerge ==
    \A i \in 1..Len(dblog) :
        dblog[i].op = "merge" => \E j \in 1..(i - 1) : dblog[j].op = "add"

(* C6: a merge that fails in a frame of run() does not leave run(): the frame is
   rendered, and the loop goes on while the game is running. *)
C6_MergeFailureStaysInRun ==
    (last.op = "frame" /\ last.mergeFailed)
    => (last.rendered /\ (game.running => game.inRun))

(* C7: when the merge fails in move(), the sprite's rect is the displaced and
   clamped one: the move is not undone. *)
C7_FailedMergeKeepsPosition ==
    (Moved("villager") /\ last.mergeFailed)
    => V.rect = BasicMove(V.module, last.pre, V.speed, last.keys)

(* a merge has failed in a move() that displaced the sprite *)
C7_Witness ==
    /\ Moved("villager") /\ last.mergeFailed
    /\ V.rect # last.pre

(* C8: move() on a VillagerIconSprite to which no Database was ever bound ends
   in an error, not normally. *)
C8_UnboundMoveIsAnError ==
    (last.op = "move" /\ last.id = "villager" /\ V.db = Unbound)
    => last.outcome = "AttributeError"

(* a move() has been called on a sprite never bound *)
C8_Witness ==
    /\ last.op = "move" /\ last.id = "villager" /\ V.db = Unbound
    /\ V.ctorDb = Unbound
    /\ Count(dblog, "add") = 0
    /\ last.outcome # "ok"

(* C9: over any sequence of constructor and insert(db) calls, the sprite's
   record is inserted at most once. *)
C9_InsertedAtMostOnce ==
    Count(dblog, "add") <= 1

----------------------------------------------------------------------------
(* Displacement of the rect by the last move(), in thousandths of a pixel *)

Displacement(i) ==
    <<Milli(spr[i].rect.left - last.pre.left), Milli(spr[i].rect.top - last.pre.top)>>

(* a rect within the canvas and at least speed away from each of its four edges *)
FarFromEdges(rect, speed) ==
    /\ Milli(rect.left) >= speed
    /\ Milli(rect.top) >= speed
    /\ Milli(SCREEN_WIDTH - (rect.left + rect.w)) >= speed
    /\ Milli(SCREEN_HEIGHT - (rect.top + rect.h)) >= speed

(* C11, as stated: a move() with exactly one direction key pressed, of a sprite
   whose rect is at least speed away from every canvas edge, displaces the rect by
   exactly speed along the key's axis, in the key's direction, and by 0 along the
   other axis *)
C11_OneKeyMovesBySpeed ==
    \A i \in Ids :
        (/\ Moved(i)
         /\ Cardinality(last.keys) = 1
         /\ FarFromEdges(last.pre, spr[i].speed))
        => Displacement(i) =
               <<AxisX(last.keys) * spr[i].speed, AxisY(last.keys) * spr[i].speed>>

(* C12, as stated: in a move() of a sprite at least speed away from every canvas
   edge, two opposing keys leave their axis without displacement while the other
   axis moves by speed in the direction of its key (up+down+left: speed to the
   left, nothing vertically); and a move() with no direction key pressed leaves a
   rect that lies within the canvas unchanged *)
C12_OpposingKeysCancel ==
    \A i \in Ids :
        Moved(i) =>
            /\ (/\ FarFromEdges(last.pre, spr[i].speed)
                /\ {"K_UP", "K_DOWN"} \subseteq last.keys)
               => Displacement(i) = <<AxisX(last.keys) * spr[i].speed, 0>>
            /\ (/\ FarFromEdges(last.pre, spr[i].speed)
                /\ {"K_LEFT", "K_RIGHT"} \subseteq last.keys)
               => Displacement(i) = <<0, AxisY(last.keys) * spr[i].speed>>
            /\ (last.keys = {} /\ InBounds(last.pre)) => spr[i].rect = last.pre

(* C13: a sprite whose speed is zero is where it was constructed, after any
   number of move() calls with any keys pressed *)
C13_ZeroSpeedNeverMoves ==
    \A i \in Ids :
        (spr[i].kind # "none" /\ spr[i].speed = 0)
        => Pos(spr[i]) = spr[i].location

(* a second move() with a key pressed, of a sprite of speed zero that lies off the canvas *)
C13_Witness ==
    /\ spr["other"].speed = 0
    /\ nmoves["other"] >= 2
    /\ Moved("other") /\ last.keys # {}
    /\ ~InBounds(spr["other"].rect)

(* the rect of sprite i lay flush against a canvas edge before the last move()
   and the keys pushed into that edge, yet that coordinate has changed *)
PushedEdgeGaveWay(i) ==
    \/ last.pre.left = 0 /\ AxisX(last.keys) < 0 /\ spr[i].rect.left # 0
    \/ /\ last.pre.left + last.pre.w = SCREEN_WIDTH /\ AxisX(last.keys) > 0
       /\ spr[i].rect.left # last.pre.left
    \/ last.pre.top = 0 /\ AxisY(last.keys) < 0 /\ spr[i].rect.top # 0
    \/ /\ last.pre.top + last.pre.h = SCREEN_HEIGHT /\ AxisY(last.keys) > 0
       /\ spr[i].rect.top # last.pre.top

(* C14, as stated: after a move() of any sprite whose rect was flush against a
   canvas edge, with keys that push into that edge, the rect has kept that
   coordinate *)
C14_FlushEdgeIsKept ==
    \A i \in Ids : Moved(i) => ~PushedEdgeGaveWay(i)

(* C14, amended: after a move() of a sprite whose rect is no larger than the
   canvas and was flush against a canvas edge, with keys that push into that edge,
   the rect has kept that coordinate; so a sprite at (0, 0) moved with up and left
   stays at (0, 0), move after move *)
C14_FlushEdgeIsKeptIfFits ==
    \A i \in Ids :
        (Moved(i) /\ FitsCanvas(last.pre)) => ~PushedEdgeGaveWay(i)

(* the second move() of a sprite of speed 10 constructed at (0, 0), with up and
   left pressed, from (0, 0) to (0, 0) *)
C14_Witness ==
    /\ Moved("other") /\ nmoves["other"] >= 2
    /\ spr["other"].location = <<0, 0>> /\ spr["other"].speed = Milli(10)
    /\ FitsCanvas(last.pre) /\ Pos([rect |-> last.pre]) = <<0, 0>>
    /\ last.keys = {"K_UP", "K_LEFT"}
    /\ Pos(spr["other"]) = <<0, 0>>

(* the rect the last move() of a moving sprite handed to the clamp step *)
Unclamped == MoveIp(last.pre, last.v)

(* the rects of sprite i that the run has produced: the present one, the one
   before the last move(), and the one that move() handed to the clamp step *)
RectsSeen(i) == {spr[i].rect, last.pre, Unclamped}

(* C15: the clamp step leaves every rect that lies within the canvas as it is, and
   on any rect (within the canvas, off it, or larger than it) applying it twice
   gives what applying it once gives *)
C15_ClampIsIdempotent ==
    \A i \in Ids :
        spr[i].kind # "none" =>
            \A r \in RectsSeen(i) :
                /\ InBounds(r) => Clamp(r) = r
                /\ Clamp(Clamp(r)) = Clamp(r)

(* a move() whose clamp step changed the rect it was handed *)
C15_Witness ==
    /\ Moved("other") /\ spr["other"].speed # 0
    /\ Clamp(Unclamped) # Unclamped
    /\ spr["other"].rect = Clamp(Unclamped)

----------------------------------------------------------------------------
(* The Game's life cycle.  last.was holds the Game as it was before the last
   call made on it. *)

(* C16: after "game.running = value", running differs from what it was only if
   it was True and is now False; if value was True, or running was already False,
   the Game is as it was; and in every case all fields other than running are as
   they were, and nothing was raised *)
C16_AssignmentOnlyStops ==
    last.op = "set_running" =>
        /\ (game.running # last.was.running) => (last.was.running /\ ~game.running)
        /\ (last.value \/ ~last.was.running) => game = last.was
        /\ [game EXCEPT !.running = last.was.running] = last.was
        /\ last.outcome = "ok"

(* True has been assigned to the running of a stopped Game that holds a surface *)
C16_Witness ==
    /\ last.op = "set_running" /\ last.value
    /\ ~last.was.running /\ last.was.surface
    /\ ~game.running

(* C17, as stated: a Game whose running has been True and is False never has
   running True again, whatever is called on it *)
C17_StoppedIsTerminal ==
    [][(game.ran /\ ~game.running) => ~game'.running]_vars

(* C17, amended: on a Game whose running has been True and is False, no call
   other than start() (run(), a pass of its loop, quit(), an assignment to
   running, or a call on a sprite or a database) makes running True *)
C17_StoppedUntilStart ==
    [][(game.ran /\ ~game.running /\ last'.op # "start") => ~game'.running]_vars

(* True has been assigned to the running of a Game that has run and stopped,
   and it is still stopped *)
C17_Witness ==
    /\ last.op = "set_running" /\ last.value
    /\ last.was.ran /\ ~last.was.running
    /\ game.ran /\ ~game.running

(* C18, as stated: when run(quit=True) has returned (its loop ended, at once or
   after some passes, without an exception), the Game's surface is None and its
   running is False *)
C18_RunQuitPerformsQuit ==
    (/\ last.op \in {"run", "frame"}
     /\ ~game.inRun /\ last.outcome = "ok"
     /\ game.quitArg)
    => (~game.surface /\ ~game.running)

(* C19: a Game without a surface is not running *)
C19_NoSurfaceNotRunning ==
    ~game.surface => ~game.running

(* quit() has been called on a running Game: it has no surface and is not running *)
C19_Witness ==
    /\ last.op = "quit" /\ last.was.running /\ last.was.surface
    /\ game.made /\ ~game.surface /\ ~game.running

(* C20: after quit(), called on a Game in whatever state, running is False, the
   surface is None and nothing was raised; and if the Game was already as quit()
   leaves it (pygame not initialised, no surface, not running), it is as it was *)
C20_QuitStopsAndRepeats ==
    last.op = "quit" =>
        /\ ~game.running /\ ~game.surface
        /\ last.outcome = "ok"
        /\ (~last.was.pygame /\ ~last.was.surface /\ ~last.was.running)
           => game = last.was

(* quit() has been called again on a Game that had been started and quit *)
C20_Witness ==
    /\ last.op = "quit"
    /\ last.was.ran /\ ~last.was.pygame /\ ~last.was.surface /\ ~last.was.running
    /\ game = last.was

----------------------------------------------------------------------------
(* The frames of run().  last.stop: a QUIT event or a pressed ESCAPE key was
   observed in the last frame; last.steps: the calls the frame made, in order. *)

(* C21, as stated, of a Game that has a player: a frame that observes QUIT or
   ESCAPE leaves running False and is the last frame of run(); after a frame that
   observes neither, run() is still in its loop with running True, about to
   start the next frame *)
C21_QuitEndsRunElseGoesOn ==
    (last.op = "frame" /\ game.player) =>
        /\ last.stop => (~game.running /\ ~game.inRun)
        /\ ~last.stop => (game.running /\ game.inRun)

(* C22: after "game.size = val", the size is val if the Game had no surface and
   is what it was if the Game had one; nothing else of the Game has changed *)
C22_SizeChangesOnlyWithoutSurface ==
    last.op = "set_size" =>
        /\ ~last.was.surface => game.size = last.size
        /\ last.was.surface => game.size = last.was.size
        /\ [game EXCEPT !.size = last.was.size] = last.was

(* another size has been assigned to a Game that holds a surface, and the size
   is the one it had *)
C22_Witness ==
    /\ last.op = "set_size" /\ last.was.surface
    /\ last.size # last.was.size
    /\ game.size = last.was.size

----------------------------------------------------------------------------
(* The registry of render groups *)

(* the keys of a registry, in the order in which its Groups are iterated *)
KindOrder(groups) == [i \in 1..Len(groups) |-> groups[i].kind]

(* C23: however many sprites of whichever classes have been constructed, in
   whatever order, the keys of each module's SPRITE_GROUPS are the classes
   pre-registered at module load, in that order; and the Groups the draw loop of
   run() has drawn are, in order, the first of those of sprite.py (all of them
   when no Group.draw raised) *)
C23_KindOrderIsFixed ==
    /\ \A m \in Modules : KindOrder(reg[m]) = KindsOf(m)
    /\ last.op = "draw" =>
          /\ KindOrder(last.drawn) = SubSeq(KindsOf("sprite"), 1, Len(last.drawn))
          /\ last.outcome = "ok" => Len(last.drawn) = Len(KindsOf("sprite"))

(* in sprite.py, a RobotIconSprite (the last class pre-registered) was
   constructed and, after it, a RectangleSprite (the third) *)
C23_Witness ==
    /\ last.op = "new" /\ last.id = "other" /\ last.outcome = "ok"
    /\ spr["other"].kind = "RectangleSprite" /\ spr["other"].module = "sprite"
    /\ spr["villager"].kind = "RobotIconSprite" /\ spr["villager"].module = "sprite"

(* the Groups of both registries that hold x, as <<module, class>> *)
GroupsOf(x) ==
    {mk \in Modules \X AllKinds :
        \E i \in 1..Len(reg[mk[1]]) :
            reg[mk[1]][i].kind = mk[2] /\ x \in reg[mk[1]][i].members}

(* C24: a sprite whose constructor returned is in exactly one Group of the
   registries, the one of its module keyed by its own class (a VillagerIconSprite
   not in IconSprite's), whatever has been done since: moves, inserts, and
   start, run, frames and quit of a Game *)
C24_InOwnGroupOnly ==
    \A i \in Ids :
        spr[i].kind # "none" => GroupsOf(i) = {<<spr[i].module, spr[i].kind>>}

(* the villager is the player of a Game whose frame has moved it, and is in the
   Group of VillagerIconSprite *)
C24_Witness ==
    /\ last.op = "frame" /\ last.id = "villager" /\ last.pre # spr["villager"].rect
    /\ GroupsOf("villager") = {<<"sprites", "VillagerIconSprite">>}

(* C25: when pygame.image.load raises in the constructor of an IconSprite or of
   a class derived from it, the error reaches the caller and the registries are
   as they were before the call: the object that failed is in no Group *)
C25_FailedLoadLeavesNoTrace ==
    (last.op = "new" /\ last.outcome = "pygame.error") =>
        \A m \in Modules : Imageless(last.id) \notin Members(reg[m])

----------------------------------------------------------------------------
(* The frame of run() *)

(* C26: a frame of run() of a Game with a player performs, after the tick of its
   clock, each of these steps once and in this order: poll the events, sample
   the keys, move the player, fill the background, draw the Groups, flip the
   display; a frame is over before the next begins *)
C26_FrameStepsInOrder ==
    (last.op = "frame" /\ game.player) =>
        last.steps = <<"tick", "events", "keys", "move", "fill", "draw", "flip">>

----------------------------------------------------------------------------
(* The session of a Database *)

(* C27: whenever Database.add or Database.merge has returned, the session of
   that Database holds no change that is not committed *)
C27_NothingPending == \A d \in DBs : ~Pending(dblog, d)

----------------------------------------------------------------------------
(* What a frame draws *)

(* C28: in every frame of run() that reaches the end of its draw loop, every
   sprite handed to the Game (its player and its other sprites) is a member of
   one of the Groups the loop has drawn *)
C28_GameSpritesAreDrawn ==
    (last.op = "frame" /\ last.rendered) => game.sprites \subseteq Members(last.drawn)

----------------------------------------------------------------------------
(* start() that cannot open the display *)

(* a call of start() on a Game that was not running has raised *)
StartFailedWhenStopped ==
    last.op = "start" /\ last.outcome = "pygame.error" /\ ~last.was.running

(* C29 as stated: after start() has raised on a Game that was not running,
   running is False and surface is None *)
C29_FailedStartLeavesNoSurface ==
    StartFailedWhenStopped => (~game.running /\ ~game.surface)

(* C29: after start() has raised on a Game that was not running, running is
   False and surface is what it was before the call, None when the Game had
   none; only pygame has been initialised *)
C29_FailedStartKeepsGame ==
    StartFailedWhenStopped =>
        /\ ~game.running
        /\ game.surface = last.was.surface
        /\ game = [last.was EXCEPT !.pygame = TRUE]

(* start() has raised on a Game made without start: not running, no surface *)
C29_Witness ==
    /\ StartFailedWhenStopped
    /\ ~last.was.surface /\ ~last.was.ran
    /\ ~game.running /\ ~game.surface

----------------------------------------------------------------------------
(* The moves and merges of run() *)

(* C30: every pass of the loop of run() calls move() of the player once and with
   it issues one merge, the pass that observes QUIT or ESCAPE included, so that
   run() issues as many merges as it starts frames; the call of run() itself,
   and so a run() of a Game that is not running, issues none *)
C30_OneMergePerFrame ==
    [][/\ (nops' = nops + 1 /\ last'.op = "frame") =>
              /\ nmoves'["villager"] = nmoves["villager"] + 1
              /\ dblog' = Append(dblog, dblog'[Len(dblog')])
              /\ dblog'[Len(dblog')].op = "merge"
              /\ dblog'[Len(dblog')].by = "frame"
       /\ (nops' = nops + 1 /\ last'.op = "run") =>
              /\ nmoves' = nmoves
              /\ dblog' = dblog]_vars

----------------------------------------------------------------------------
(* The other sprites of a Game *)

(* C31: neither the call of run() nor any pass of its loop changes a sprite
   other than the player: a sprite handed to the Game as other_sprites keeps its
   rect (and all else), whatever the events and keys of the frame *)
C31_RunMovesPlayerOnly ==
    [][(nops' = nops + 1 /\ last'.op \in {"run", "frame"}) =>
          spr'["other"] = spr["other"]]_vars

(* a frame has moved the player of a Game that holds another sprite, which is
   where it was constructed *)
C31_Witness ==
    /\ last.op = "frame" /\ last.id = "villager" /\ last.keys # {}
    /\ last.pre # spr["villager"].rect
    /\ "other" \in game.sprites
    /\ Pos(spr["other"]) \in SLocations

----------------------------------------------------------------------------
(* A Game without a player *)

(* C32: a pass of the loop of run() of a Game made without a player_sprite
   raises nothing: it polls, fills, draws and flips, and run() ends only in a
   frame that has observed QUIT or ESCAPE *)
C32_NoPlayerFrameRuns ==
    (last.op = "frame" /\ ~game.player) =>
        /\ last.outcome = "ok"
        /\ last.rendered
        /\ ~game.inRun => last.stop

----------------------------------------------------------------------------
(* What stays as constructed *)

(* C33: no call made on or with a constructed sprite (move, insert, the
   construction of a Game, start, run and its frames, quit) changes the sprite's
   speed or the width and height of its rect: move_ip and the clamp move the
   rect only *)
C33_SpeedAndSizeAreKept ==
    [][\A i \in Ids :
          spr[i].kind # "none" =>
              /\ spr'[i].speed = spr[i].speed
              /\ spr'[i].rect.w = spr[i].rect.w
              /\ spr'[i].rect.h = spr[i].rect.h]_vars

(* a move() whose clamp step put the rect back at a far edge of the canvas,
   leaving it elsewhere than before and of the same size *)
C33_Witness ==
    /\ Moved("other") /\ spr["other"].speed # 0
    /\ \/ Unclamped.left + Unclamped.w > SCREEN_WIDTH
       \/ Unclamped.top + Unclamped.h > SCREEN_HEIGHT
    /\ spr["other"].rect # last.pre
    /\ spr["other"].rect.w = last.pre.w /\ spr["other"].rect.h = last.pre.h

============================================================================
